---- MODULE Spec2Model ----
(***************************************************************************)
(* Model of the realtime voice session controller of                      *)
(* src/components/LiveChat.tsx (component LiveChat).                       *)
(*                                                                         *)
(* One LiveChat instance is modelled.  Every event-loop task of the        *)
(* component is one action: a button click, the resolution of an awaited   *)
(* promise of handleConnect, a callback of a transport opened by           *)
(* ai.live.connect, an onaudioprocess event, the end of a playback source, *)
(* the unmount effect.  React state updates issued by one task are applied *)
(* together, the last write winning.                                       *)
(*                                                                         *)
(* The text chat of the same application (component TextChat) is modelled  *)
(* beside it: its message list, its response streams and its              *)
(* text-to-speech player.                                                  *)
(*                                                                         *)
(* Each invocation of handleConnect has an index i; the transport it       *)
(* opens, the microphone stream it obtains and the audio nodes it creates  *)
(* carry the same index.  A ref holds 0 for null.  Spec has room for       *)
(* MaxStarts invocations, SpecOverlap for one more.                        *)
(***************************************************************************)
EXTENDS Naturals, Integers, Sequences, FiniteSets, TLC

\* ---- bounds of the exploration ----
MaxStarts == 1      \* invocations of handleConnect that pass the state guard
MaxInputs == 1      \* messages, audio windows and clock ticks delivered
MaxEvents == 3      \* the same, delivered to a session that starts connected

Starts == 1..MaxStarts
\* One invocation more, for the behaviours in which two starts overlap.
OverlapStarts == 1..(MaxStarts + 1)
Deltas == {"a"}
Durations == {1, 2}
NoText == "none"

VARIABLES
    mounted,                    \* the component instance is mounted
    sessionState,               \* useState sessionState
    transcriptionHistory,       \* useState transcriptionHistory
    currentUserTranscription,   \* useState currentUserTranscription
    currentModelTranscription,  \* useState currentModelTranscription
    sessionPromiseRef,          \* refs: 0 is null, i the object of start i
    inputAudioContextRef,
    outputAudioContextRef,
    microphoneStreamRef,
    scriptProcessorRef,
    sourceNodeRef,
    outputAudioSources,         \* Set of playback sources (indices of sources)
    nextAudioStartTime,
    userTranscriptRef,
    modelTranscriptRef,
    calls,                      \* position of every handleConnect invocation
    sessions,                   \* transports opened by ai.live.connect
    media,                      \* microphone streams, contexts and nodes
    sources,                    \* every AudioBufferSourceNode created
    currentTime,                \* outputCtx.currentTime
    unhandledRejections,        \* rejected promises nobody handles
    inputs,                     \* messages, windows and ticks still to deliver
    lastOp,                     \* the task that ran last: its handler, the state
                                \* it found, its message, its side effects in order
    agent,                      \* prop agent: the id of the selected persona
    inputData,                  \* createBlob: the Float32Array it is given
    int16,                      \* createBlob: its Int16Array
    pcmBlob,                    \* createBlob: the base64 data of its Blob
    channelData,                \* decodePCMAudioData: the samples of its buffer
    decoding,                   \* onMessage invocations suspended at the await of
                                \* line 195, in the order they will resume
    arrived,                    \* messages delivered so far
    chat,                       \* TextChat useState chat: 0 is null, k the k-th
                                \* chat the effect of lines 66-84 created
    messages,                   \* TextChat useState messages
    isLoading,                  \* TextChat useState isLoading
    streams,                    \* handleSendMessage invocations past the guard
    chatsCreatable,             \* ai.chats.create does not throw
    audioState,                 \* TextChat useState audioState
    playingMessageId,           \* TextChat useState playingMessageId, 0 is null
    audioError,                 \* TextChat useState audioError, "" is null
    audioContextRef,            \* 0 is null, i the context of request i
    audioSourceRef,             \* 0 is null, i the source of request i
    plays                       \* handlePlayAudio invocations that request speech

vars == <<mounted, sessionState, transcriptionHistory, currentUserTranscription,
          currentModelTranscription, sessionPromiseRef, inputAudioContextRef,
          outputAudioContextRef, microphoneStreamRef, scriptProcessorRef,
          sourceNodeRef, outputAudioSources, nextAudioStartTime,
          userTranscriptRef, modelTranscriptRef, calls, sessions, media,
          sources, currentTime, unhandledRejections, inputs, lastOp, agent,
          inputData, int16, pcmBlob, channelData, decoding, arrived,
          chat, messages, isLoading, streams, chatsCreatable, audioState,
          playingMessageId, audioError, audioContextRef, audioSourceRef, plays>>

reactState == <<sessionState, transcriptionHistory, currentUserTranscription,
                currentModelTranscription>>
transcriptRefs == <<userTranscriptRef, modelTranscriptRef>>
audioRefs == <<inputAudioContextRef, outputAudioContextRef, microphoneStreamRef,
               scriptProcessorRef, sourceNodeRef>>
playback == <<outputAudioSources, nextAudioStartTime, sources>>
pcm == <<inputData, int16, pcmBlob, channelData>>
awaits == <<decoding, arrived>>
conversation == <<chat, messages, isLoading, streams, chatsCreatable>>
player == <<audioState, playingMessageId, audioError, audioContextRef,
            audioSourceRef, plays>>
textChat == <<conversation, player>>

NoCall == [pc |-> "none", superseded |-> FALSE]
NoSession == [ws |-> "none", promise |-> "none", closeRequests |-> 0,
              pendingClose |-> FALSE, pendingSends |-> <<>>, sent |-> <<>>,
              systemInstruction |-> <<>>]
NoMedia == [mic |-> "none", inputCtx |-> "none", outputCtx |-> "none",
            scriptProcessor |-> "none", sourceNode |-> "none", windows |-> 0]

\* ---- the personas (constants.ts) ----

\* The placeholder of the language tutor's instruction.
Placeholder == "{language}"

\* AGENTS: the systemInstruction of every persona, as the sequence of its
\* pieces of text and placeholders.
AGENTS ==
    [general |-> <<"general">>,
     language_tutor |-> <<"tutor.goal", Placeholder, "tutor.engage", Placeholder,
                          "tutor.slang">>,
     blog_writer |-> <<"blog_writer">>,
     comedian |-> <<"comedian">>,
     translator |-> <<"translator">>,
     positive_finder |-> <<"positive_finder">>]

AgentIds == DOMAIN AGENTS

\* App.tsx line 13: the persona selected when the application starts.
DefaultAgent == "general"

NoMessage ==
    [out |-> NoText, in |-> NoText, turnComplete |-> FALSE, part |-> "none",
     audio |-> 0]

\* The component after construction, with room for the invocations of S.
\* App.tsx lines 61-62: while the live tab is shown no TextChat is mounted.
NoTextChat ==
    /\ chat = 0
    /\ messages = <<>>
    /\ isLoading = FALSE
    /\ streams = <<>>
    /\ chatsCreatable = TRUE
    /\ audioState = "idle"
    /\ playingMessageId = 0
    /\ audioError = ""
    /\ audioContextRef = 0
    /\ audioSourceRef = 0
    /\ plays = <<>>

\* LiveChat after construction, with room for the invocations of S.
ConstructedLive(S) ==
    /\ mounted = TRUE
    /\ sessionState = "idle"
    /\ transcriptionHistory = <<>>
    /\ currentUserTranscription = <<>>
    /\ currentModelTranscription = <<>>
    /\ sessionPromiseRef = 0
    /\ inputAudioContextRef = 0
    /\ outputAudioContextRef = 0
    /\ microphoneStreamRef = 0
    /\ scriptProcessorRef = 0
    /\ sourceNodeRef = 0
    /\ outputAudioSources = {}
    /\ nextAudioStartTime = 0
    /\ userTranscriptRef = <<>>
    /\ modelTranscriptRef = <<>>
    /\ calls = [i \in S |-> NoCall]
    /\ sessions = [i \in S |-> NoSession]
    /\ media = [i \in S |-> NoMedia]
    /\ sources = <<>>
    /\ currentTime = 0
    /\ unhandledRejections = 0
    /\ inputs = MaxInputs
    /\ lastOp = [op |-> "init", from |-> "idle", message |-> NoMessage,
                 effects |-> <<>>]
    /\ decoding = <<>>
    /\ arrived = 0

Constructed(S) == ConstructedLive(S) /\ NoTextChat

\* No conversion of audio samples is under way.
NoConversion ==
    /\ inputData = <<>>
    /\ int16 = <<>>
    /\ pcmBlob = <<>>
    /\ channelData = <<>>

\* The state after construction, with room for the invocations of S.
InitWith(S) ==
    /\ Constructed(S)
    /\ agent = DefaultAgent
    /\ NoConversion

Init == InitWith(Starts)

InitOverlap == InitWith(OverlapStarts)

\* The invocations of handleConnect the behaviour has room for.
Slots == DOMAIN calls

\* No onMessage invocation is suspended: the microtasks of the last task have
\* run and the event loop may start the next task.
TaskBoundary == decoding = <<>>

\* The value sessionState holds once the setSessionState calls of one task,
\* in the order writes, have been applied.  An unmounted component ignores
\* them.
Settle(writes) ==
    IF mounted /\ writes # <<>> THEN writes[Len(writes)] ELSE sessionState

\* The record of a task: the handler that ran and the state it found.
Did(handler) ==
    [op |-> handler, from |-> sessionState, message |-> NoMessage,
     effects |-> <<>>]

\* A useState setter other than setSessionState.
SetIfMounted(old, new) == IF mounted THEN new ELSE old

\* ---- cleanup (lines 107-140) ----

\* session.close() on transport t: an open socket starts closing.
SessionClose(t) ==
    [t EXCEPT !.ws = IF t.ws = "open" THEN "closing" ELSE t.ws]

\* Lines 108-111 when mutated to leave out line 110.
CleanupSessionKeepsRef(ss, ref) ==
    [sessions |->
        IF ref = 0 THEN ss
        ELSE [ss EXCEPT ![ref] =
                LET t == [@ EXCEPT !.closeRequests = @ + 1] IN
                CASE t.promise = "pending" -> [t EXCEPT !.pendingClose = TRUE]
                  [] t.promise = "resolved" -> SessionClose(t)
                  [] OTHER -> t],
     ref |-> ref]

\* Lines 108-111: close is chained on the held promise and the ref is nulled.
\* On a pending promise the close waits for the resolution, on a resolved one
\* it runs in the microtask that follows, on a rejected one
\* .catch(console.error) takes the rejection.
CleanupSession(ss, ref) ==
    [sessions |->
        IF ref = 0 THEN ss
        ELSE [ss EXCEPT ![ref] =
                LET t == [@ EXCEPT !.closeRequests = @ + 1] IN
                CASE t.promise = "pending" -> [t EXCEPT !.pendingClose = TRUE]
                  [] t.promise = "resolved" -> SessionClose(t)
                  [] OTHER -> t],
     ref |-> 0]

\* Lines 112-131 when mutated to leave out the track.stop() of line 121.
CleanupMediaKeepsTracks(md) ==
    [i \in Slots |->
        [mic |-> md[i].mic,
         inputCtx |-> IF inputAudioContextRef = i /\ md[i].inputCtx # "closed"
                      THEN "closed" ELSE md[i].inputCtx,
         outputCtx |-> IF outputAudioContextRef = i /\ md[i].outputCtx # "closed"
                       THEN "closed" ELSE md[i].outputCtx,
         scriptProcessor |-> IF scriptProcessorRef = i THEN "disconnected"
                             ELSE md[i].scriptProcessor,
         sourceNode |-> IF sourceNodeRef = i THEN "disconnected"
                        ELSE md[i].sourceNode,
         windows |-> md[i].windows]]

\* Lines 112-131: the capture graph, the microphone stream and both contexts.
CleanupMedia(md) ==
    [i \in Slots |->
        [mic |-> IF microphoneStreamRef = i THEN "stopped" ELSE md[i].mic,
         inputCtx |-> IF inputAudioContextRef = i /\ md[i].inputCtx # "closed"
                      THEN "closed" ELSE md[i].inputCtx,
         outputCtx |-> IF outputAudioContextRef = i /\ md[i].outputCtx # "closed"
                       THEN "closed" ELSE md[i].outputCtx,
         scriptProcessor |-> IF scriptProcessorRef = i THEN "disconnected"
                             ELSE md[i].scriptProcessor,
         sourceNode |-> IF sourceNodeRef = i THEN "disconnected"
                        ELSE md[i].sourceNode,
         windows |-> md[i].windows]]

\* Lines 124-131: a context ref is nulled only when its context is not closed.
CleanupContextRef(ref, state) ==
    IF ref # 0 /\ state # "closed" THEN 0 ELSE ref

\* Line 132 when mutated to stop no source.
StopSourcesNone(sq, set) == sq

\* Line 132: every source of the set is stopped.
StopSources(sq, set) ==
    [k \in DOMAIN sq |->
        IF k \in set /\ sq[k].state = "playing"
        THEN [sq[k] EXCEPT !.state = "stopped"] ELSE sq[k]]

\* A handleConnect invocation still awaiting a step when cleanup runs.
Supersede(cs) ==
    [i \in Slots |->
        IF cs[i].pc \in {"fetch", "mic"}
        THEN [cs[i] EXCEPT !.superseded = TRUE] ELSE cs[i]]

Sel(c, e) == IF c THEN <<e>> ELSE <<>>

\* Lines 108-134: the calls cleanup makes on the objects the refs hold, in the
\* order they run.  Line 109 only chains session.close() on the promise: the
\* call itself runs in a microtask after cleanup has returned when the
\* promise is resolved, and in a later task when it is pending.
CleanupEffects ==
    Sel(sessionPromiseRef # 0, "then(session.close)")
    \o Sel(scriptProcessorRef # 0, "scriptProcessor.disconnect")
    \o Sel(sourceNodeRef # 0, "sourceNode.disconnect")
    \o Sel(microphoneStreamRef # 0, "track.stop")
    \o Sel(inputAudioContextRef # 0
             /\ media[inputAudioContextRef].inputCtx # "closed",
           "inputAudioContext.close")
    \o Sel(outputAudioContextRef # 0
             /\ media[outputAudioContextRef].outputCtx # "closed",
           "outputAudioContext.close")
    \o Sel(outputAudioSources # {}, "source.stop")
    \o Sel(sessionPromiseRef # 0
             /\ sessions[sessionPromiseRef].promise = "resolved",
           "session.close")

\* The record of a task that runs cleanup.
DidCleanup(handler) == [Did(handler) EXCEPT !.effects = CleanupEffects]

\* cleanup(), run by a task that has already called setSessionState with the
\* values of prior and has left its handleConnect invocations as cs and the
\* transports as ss.
cleanup(prior, cs, ss) ==
    /\ sessions' = CleanupSession(ss, sessionPromiseRef).sessions
    /\ sessionPromiseRef' = CleanupSession(ss, sessionPromiseRef).ref
    /\ media' = CleanupMedia(media)
    /\ scriptProcessorRef' = 0
    /\ sourceNodeRef' = 0
    /\ microphoneStreamRef' = 0
    /\ inputAudioContextRef' =
         IF inputAudioContextRef = 0 THEN 0
         ELSE CleanupContextRef(inputAudioContextRef,
                                media[inputAudioContextRef].inputCtx)
    /\ outputAudioContextRef' =
         IF outputAudioContextRef = 0 THEN 0
         ELSE CleanupContextRef(outputAudioContextRef,
                                media[outputAudioContextRef].outputCtx)
    /\ sources' = StopSources(sources, outputAudioSources)
    /\ outputAudioSources' = {}
    /\ nextAudioStartTime' = 0
    /\ sessionState' = Settle(prior \o <<"idle">>)
    /\ userTranscriptRef' = <<>>
    /\ modelTranscriptRef' = <<>>
    /\ currentUserTranscription' = SetIfMounted(currentUserTranscription, <<>>)
    /\ currentModelTranscription' = SetIfMounted(currentModelTranscription, <<>>)
    /\ calls' = Supersede(cs)
    /\ UNCHANGED <<transcriptionHistory, currentTime, unhandledRejections,
                   inputs, agent, pcm, awaits, textChat>>

\* Lines 302-304: the button runs cleanup while the state is 'connected'.
Stop ==
    /\ TaskBoundary
    /\ mounted
    /\ sessionState = "connected"
    /\ cleanup(<<>>, calls, sessions)
    /\ lastOp' = DidCleanup("stop")
    /\ UNCHANGED mounted

\* Lines 142-146: the effect's destructor runs cleanup when the component
\* unmounts.  The state it leaves is read as the unmounted component's state;
\* later setState calls are ignored.
Unmount ==
    /\ TaskBoundary
    /\ mounted
    /\ cleanup(<<>>, calls, sessions)
    /\ mounted' = FALSE
    /\ lastOp' = DidCleanup("unmount")

\* ---- handleConnect (lines 148-252) ----

NextStart == Cardinality({i \in Slots : calls[i].pc # "none"}) + 1

\* Line 149: the guard of handleConnect.
StartAllowed == sessionState = "idle" \/ sessionState = "error"

\* Lines 148-155 when mutated to run line 151 before the guard of line 149.
handleConnectClearsFirst ==
    /\ TaskBoundary
    /\ mounted
    /\ lastOp' = Did("handleConnect")
    /\ UNCHANGED <<agent, pcm, awaits, textChat>>
    /\ transcriptionHistory' = <<>>
    /\ IF ~StartAllowed
       THEN UNCHANGED <<mounted, sessionState, currentUserTranscription,
                        currentModelTranscription, sessionPromiseRef, audioRefs,
                        playback, transcriptRefs, calls, sessions, media,
                        currentTime, unhandledRejections, inputs>>
       ELSE /\ NextStart \in Slots
            /\ sessionState' = Settle(<<"fetching_context">>)
            /\ calls' = [calls EXCEPT ![NextStart].pc = "fetch"]
            /\ UNCHANGED <<mounted, currentUserTranscription,
                           currentModelTranscription, sessionPromiseRef,
                           audioRefs, playback, transcriptRefs, sessions, media,
                           currentTime, unhandledRejections, inputs>>

\* Lines 148-155, up to the first await.  The button offers handleConnect only
\* in 'idle' and 'error' (lines 257-258, 303); the guard of line 149 is what
\* rejects any other call.
handleConnect ==
    /\ TaskBoundary
    /\ mounted
    /\ lastOp' = Did("handleConnect")
    /\ UNCHANGED <<agent, pcm, awaits, textChat>>
    /\ IF ~StartAllowed
       THEN UNCHANGED <<mounted, reactState, sessionPromiseRef, audioRefs,
                        playback, transcriptRefs, calls, sessions, media,
                        currentTime, unhandledRejections, inputs>>
       ELSE /\ NextStart \in Slots
            /\ transcriptionHistory' = <<>>
            /\ sessionState' = Settle(<<"fetching_context">>)
            /\ calls' = [calls EXCEPT ![NextStart].pc = "fetch"]
            /\ UNCHANGED <<mounted, currentUserTranscription,
                           currentModelTranscription, sessionPromiseRef,
                           audioRefs, playback, transcriptRefs, sessions, media,
                           currentTime, unhandledRejections, inputs>>

\* Lines 58-79: the context of a persona; the empty sequence is ''.
fetchContextFromR2(agentId) ==
    CASE agentId = "blog_writer" -> <<"r2.blog_writer">>
      [] agentId = "language_tutor" -> <<"r2.language_tutor">>
      [] OTHER -> <<>>

\* Lines 156-158 when mutated to leave the context out.
finalSystemInstructionBare(a) == AGENTS[a]

\* Lines 156-158.
finalSystemInstruction(a) ==
    LET r2Context == fetchContextFromR2(a) IN
    IF r2Context # <<>>
    THEN AGENTS[a] \o <<"--- Additional Context from R2 ---">> \o r2Context
    ELSE AGENTS[a]

\* Lines 155-229: fetchContextFromR2 has resolved; the transport is opened
\* with the instruction of lines 156-158 and the microphone is requested.
ContextReady(i) ==
    /\ TaskBoundary
    /\ calls[i].pc = "fetch"
    /\ sessionState' = Settle(<<"connecting">>)
    /\ sessions' = [sessions EXCEPT ![i] =
                      [NoSession EXCEPT !.ws = "connecting", !.promise = "pending",
                                        !.systemInstruction =
                                            finalSystemInstruction(agent)]]
    /\ sessionPromiseRef' = i
    /\ calls' = [calls EXCEPT ![i].pc = "mic"]
    /\ lastOp' = Did("contextReady")
    /\ UNCHANGED <<agent, pcm, awaits, textChat>>
    /\ UNCHANGED <<mounted, transcriptionHistory, currentUserTranscription,
                   currentModelTranscription, audioRefs, playback,
                   transcriptRefs, media, currentTime, unhandledRejections, inputs>>

\* Lines 229-245: getUserMedia has resolved.
MicGranted(i) ==
    /\ TaskBoundary
    /\ calls[i].pc = "mic"
    /\ microphoneStreamRef' = i
    /\ inputAudioContextRef' = i
    /\ outputAudioContextRef' = i
    /\ sourceNodeRef' = i
    /\ scriptProcessorRef' = i
    /\ media' = [media EXCEPT ![i] =
                   [mic |-> "live", inputCtx |-> "running", outputCtx |-> "running",
                    scriptProcessor |-> "connected", sourceNode |-> "connected",
                    windows |-> 0]]
    /\ calls' = [calls EXCEPT ![i].pc = "done"]
    /\ currentTime' = 0
    /\ lastOp' = Did("micGranted")
    /\ UNCHANGED <<agent, pcm, awaits, textChat>>
    /\ UNCHANGED <<mounted, reactState, sessionPromiseRef, playback,
                   transcriptRefs, sessions, unhandledRejections, inputs>>

\* Lines 229, 247-251: getUserMedia has rejected; the catch block runs.
MicDenied(i) ==
    /\ TaskBoundary
    /\ calls[i].pc = "mic"
    /\ cleanup(<<"error">>, [calls EXCEPT ![i].pc = "done"], sessions)
    /\ lastOp' = DidCleanup("micDenied")
    /\ UNCHANGED mounted

\* ---- callbacks of the transport opened by start i (lines 166-216) ----

Max(a, b) == IF a >= b THEN a ELSE b

\* Lines 206-208 and the resolution of the promise of line 218: the socket
\* opens, onopen runs, the promise resolves and the handlers chained on it run
\* in the order they were chained (the sends of line 240, then the close of
\* line 109).
TransportOpen(i) ==
    /\ TaskBoundary
    /\ sessions[i].ws = "connecting"
    /\ sessions[i].promise = "pending"
    /\ sessionState' = Settle(<<"connected">>)
    /\ sessions' = [sessions EXCEPT ![i] =
          LET t == [@ EXCEPT !.ws = "open", !.promise = "resolved",
                             !.sent = @ \o sessions[i].pendingSends,
                             !.pendingSends = <<>>, !.pendingClose = FALSE]
          IN IF sessions[i].pendingClose THEN SessionClose(t) ELSE t]
    /\ lastOp' = Did("onOpen")
    /\ UNCHANGED <<agent, pcm, awaits, textChat>>
    /\ UNCHANGED <<mounted, transcriptionHistory, currentUserTranscription,
                   currentModelTranscription, sessionPromiseRef, audioRefs,
                   playback, transcriptRefs, calls, media, currentTime,
                   unhandledRejections, inputs>>

\* The promise of line 218 rejects: the transport never comes to exist and
\* delivers no callback.  The sends chained on the promise at line 240 have no
\* rejection handler; the close chained at line 109 has one.
ConnectRejected(i) ==
    /\ TaskBoundary
    /\ sessions[i].promise = "pending"
    /\ sessions[i].ws = "connecting"
    /\ sessions' = [sessions EXCEPT ![i].promise = "rejected",
                                    ![i].ws = "failed",
                                    ![i].pendingSends = <<>>,
                                    ![i].pendingClose = FALSE]
    /\ unhandledRejections' =
         unhandledRejections + Len(sessions[i].pendingSends)
    /\ lastOp' = Did("connectRejected")
    /\ UNCHANGED <<agent, pcm, awaits, textChat>>
    /\ UNCHANGED <<mounted, reactState, sessionPromiseRef, audioRefs, playback,
                   transcriptRefs, calls, media, currentTime, inputs>>

\* Lines 209-213.
onError(i) ==
    /\ TaskBoundary
    /\ sessions[i].ws \in {"connecting", "open"}
    /\ cleanup(<<"error">>, calls, [sessions EXCEPT ![i].ws = "errored"])
    /\ lastOp' = DidCleanup("onError")
    /\ UNCHANGED mounted

\* Lines 214-216.
onClose(i) ==
    /\ TaskBoundary
    /\ sessions[i].ws \in {"open", "closing", "errored"}
    /\ cleanup(<<>>, calls, [sessions EXCEPT ![i].ws = "closed"])
    /\ lastOp' = DidCleanup("onClose")
    /\ UNCHANGED mounted

\* Line 191: what serverContent.modelTurn holds.  "none": no model turn;
\* "empty": parts is []; "text": the first part has no inlineData; "audio":
\* the first part holds PCM audio; "undecodable": it holds an odd number of
\* bytes, which new Int16Array (line 27) does not accept.
Parts == {"none", "empty", "text", "audio", "undecodable"}

\* The messages a transport may deliver: a transcription delta of either
\* speaker or none, the turn-complete flag, the model turn and the duration
\* of its audio, 0 when it has none.
Messages ==
    {m \in [out : Deltas \cup {NoText}, in : Deltas \cup {NoText},
            turnComplete : BOOLEAN, part : Parts, audio : Durations \cup {0}] :
        m.part = "audio" <=> m.audio # 0}

\* The messages that carry no transcription, and those that carry no model
\* turn.  onMessage handles the transcription and the model turn of a message
\* on disjoint state, so a message carrying both acts as one of each.
AudioMessages ==
    {m \in Messages : m.out = NoText /\ m.in = NoText /\ ~m.turnComplete}
TextMessages == {m \in Messages : m.part = "none"}
DeliveredMessages == TextMessages \cup AudioMessages

\* Lines 167-175.
ModelTextAfter(m) ==
    IF m.out # NoText THEN Append(modelTranscriptRef, m.out)
    ELSE modelTranscriptRef

\* Lines 171-174 when mutated to take the delta of either speaker.
UserTextAfterMerged(m) ==
    IF m.out # NoText THEN Append(userTranscriptRef, m.out)
    ELSE IF m.in # NoText THEN Append(userTranscriptRef, m.in)
    ELSE userTranscriptRef

UserTextAfter(m) ==
    IF m.out = NoText /\ m.in # NoText THEN Append(userTranscriptRef, m.in)
    ELSE userTranscriptRef

\* Lines 180-184 when mutated to take the text of the message instead of the
\* text the buffers hold.
TurnEntriesOfDelta(m) ==
    <<[speaker |-> "user",
       text |-> IF m.out = NoText /\ m.in # NoText THEN <<m.in>> ELSE <<>>],
      [speaker |-> "model",
       text |-> IF m.out # NoText THEN <<m.out>> ELSE <<>>]>>

\* Lines 178-184: the entries a turn-complete message appends.
TurnEntries(m) ==
    <<[speaker |-> "user", text |-> UserTextAfter(m)],
      [speaker |-> "model", text |-> ModelTextAfter(m)]>>

\* Line 194 when mutated to start every source at the clock.
ScheduledStartAtClock == currentTime

\* Line 194 when mutated to leave out the clock.
ScheduledStartAtEnd == nextAudioStartTime

\* Line 194: the time the next source starts at.
ScheduledStart == Max(nextAudioStartTime, currentTime)

\* Line 191: the optional chain of message.serverContent?.modelTurn?.parts[0]
\* ?.inlineData.data reads .data of undefined when the first part has no
\* inlineData, and throws.
ReadsAudioData(m) == m.part \in {"audio", "undecodable"}
ThrowsAtAudioData(m) == m.part = "text"

\* Lines 166-195: onMessage up to its await.  A message that carries audio
\* while an output context is held raises nextAudioStartTime to the clock
\* (line 194) and suspends at line 195; the read of line 191 that throws
\* rejects the promise of the invocation.
onMessage(i, m) ==
    /\ sessions[i].ws \in {"open", "closing"}
    /\ inputs > 0
    /\ inputs' = inputs - 1
    /\ arrived' = arrived + 1
    /\ IF m.turnComplete
       THEN /\ transcriptionHistory' =
                 SetIfMounted(transcriptionHistory,
                              transcriptionHistory \o TurnEntries(m))
            /\ userTranscriptRef' = <<>>
            /\ modelTranscriptRef' = <<>>
            /\ currentUserTranscription' =
                 SetIfMounted(currentUserTranscription, <<>>)
            /\ currentModelTranscription' =
                 SetIfMounted(currentModelTranscription, <<>>)
       ELSE /\ UNCHANGED transcriptionHistory
            /\ userTranscriptRef' = UserTextAfter(m)
            /\ modelTranscriptRef' = ModelTextAfter(m)
            /\ currentUserTranscription' =
                 IF m.out = NoText /\ m.in # NoText
                 THEN SetIfMounted(currentUserTranscription, UserTextAfter(m))
                 ELSE currentUserTranscription
            /\ currentModelTranscription' =
                 IF m.out # NoText
                 THEN SetIfMounted(currentModelTranscription, ModelTextAfter(m))
                 ELSE currentModelTranscription
    /\ IF ReadsAudioData(m) /\ outputAudioContextRef # 0
       THEN /\ nextAudioStartTime' = ScheduledStart
            /\ decoding' = Append(decoding,
                              [outputCtx |-> outputAudioContextRef,
                               message |-> m, arrival |-> arrived + 1])
       ELSE UNCHANGED <<nextAudioStartTime, decoding>>
    /\ unhandledRejections' =
         IF ThrowsAtAudioData(m) THEN unhandledRejections + 1
         ELSE unhandledRejections
    /\ lastOp' = [Did("onMessage") EXCEPT !.message = m]
    /\ UNCHANGED <<agent, pcm, textChat>>
    /\ UNCHANGED <<mounted, sessionState, sessionPromiseRef, audioRefs, calls,
                   sessions, media, currentTime, outputAudioSources, sources>>

\* The suspended invocation that resumes next when they resume out of order.
LastSuspended == decoding[Len(decoding)]

\* The suspended invocation that resumes next: continuations run in the
\* order their awaits were reached.
NextSuspended == Head(decoding)

\* Line 27 when mutated to take a payload of any length.
DecodesAnyLength(m) == TRUE

\* Line 27: new Int16Array(data.buffer) takes a payload of an even number of
\* bytes and throws a RangeError on one of an odd number.
Decodes(m) == m.part = "audio"

\* Lines 195-203: onMessage from its await on.  decodePCMAudioData has
\* returned its buffer, and the source is started at nextAudioStartTime, which
\* advances by the duration; or it has thrown at line 27, and the promise of
\* the invocation rejects.
Decoded ==
    /\ decoding # <<>>
    /\ LET d == NextSuspended IN
       /\ decoding' = SelectSeq(decoding, LAMBDA e : e # d)
       /\ IF Decodes(d.message)
          THEN /\ sources' = Append(sources,
                                [ctx |-> d.outputCtx,
                                 start |-> nextAudioStartTime,
                                 duration |-> d.message.audio,
                                 state |-> "playing",
                                 arrival |-> d.arrival])
               /\ nextAudioStartTime' = nextAudioStartTime + d.message.audio
               /\ outputAudioSources' = outputAudioSources \cup {Len(sources) + 1}
               /\ UNCHANGED unhandledRejections
          ELSE /\ unhandledRejections' = unhandledRejections + 1
               /\ UNCHANGED playback
       /\ lastOp' = [Did("decoded") EXCEPT !.message = d.message]
    /\ UNCHANGED <<mounted, reactState, sessionPromiseRef, audioRefs,
                   transcriptRefs, calls, sessions, media, currentTime, inputs,
                   agent, pcm, arrived, textChat>>

\* Line 199: a source that has played to its end leaves the set.
SourceEnded(k) ==
    /\ TaskBoundary
    /\ k \in DOMAIN sources
    /\ sources[k].state = "playing"
    /\ media[sources[k].ctx].outputCtx = "running"
    /\ outputAudioContextRef = sources[k].ctx
    /\ currentTime >= sources[k].start + sources[k].duration
    /\ sources' = [sources EXCEPT ![k].state = "ended"]
    /\ outputAudioSources' = outputAudioSources \ {k}
    /\ lastOp' = Did("ended")
    /\ UNCHANGED <<agent, pcm, awaits, textChat>>
    /\ UNCHANGED <<mounted, reactState, sessionPromiseRef, audioRefs,
                   nextAudioStartTime, transcriptRefs, calls, sessions, media,
                   currentTime, unhandledRejections, inputs>>

\* Line 238: the chunk createBlob makes of the next window of processor i.
pcmBlobOf(i) == [processor |-> i, window |-> media[i].windows + 1]

\* Lines 239-241 when mutated to chain the send in front of the handlers
\* already chained on the promise.
SendChainedFirst(t, chunk) ==
    CASE t.promise = "pending" ->
           [t EXCEPT !.pendingSends = <<chunk>> \o @]
      [] t.promise = "resolved" -> [t EXCEPT !.sent = <<chunk>> \o @]
      [] OTHER -> t

\* Lines 239-241: sendRealtimeInput is chained on the promise of transport
\* t.  On a pending promise the call waits for the resolution, behind the
\* handlers chained before it; on a resolved one it runs in the microtask
\* that follows; on a rejected one it never runs.
SendChained(t, chunk) ==
    CASE t.promise = "pending" ->
           [t EXCEPT !.pendingSends = Append(@, chunk)]
      [] t.promise = "resolved" -> [t EXCEPT !.sent = Append(@, chunk)]
      [] OTHER -> t

\* Lines 236-242: the script processor of start i delivers a window.  An
\* event queued before disconnect() is still delivered after it.
onaudioprocess(i) ==
    /\ TaskBoundary
    /\ media[i].scriptProcessor \in {"connected", "disconnected"}
    /\ inputs > 0
    /\ inputs' = inputs - 1
    /\ lastOp' = Did("onaudioprocess")
    /\ UNCHANGED <<agent, pcm, awaits, textChat>>
    /\ media' = [media EXCEPT ![i].windows = @ + 1]
    /\ IF sessionPromiseRef = 0
       THEN UNCHANGED <<sessions, unhandledRejections>>
       ELSE /\ sessions' = [sessions EXCEPT ![sessionPromiseRef] =
                              SendChained(@, pcmBlobOf(i))]
            /\ unhandledRejections' =
                 IF sessions[sessionPromiseRef].promise = "rejected"
                 THEN unhandledRejections + 1 ELSE unhandledRejections
    /\ UNCHANGED <<mounted, reactState, sessionPromiseRef, audioRefs, playback,
                   transcriptRefs, calls, currentTime>>

\* The clock of the output context held by outputAudioContextRef advances.
Tick ==
    /\ TaskBoundary
    /\ outputAudioContextRef # 0
    /\ media[outputAudioContextRef].outputCtx = "running"
    /\ inputs > 0
    /\ inputs' = inputs - 1
    /\ currentTime' = currentTime + 1
    /\ lastOp' = Did("tick")
    /\ UNCHANGED <<agent, pcm, awaits, textChat>>
    /\ UNCHANGED <<mounted, reactState, sessionPromiseRef, audioRefs, playback,
                   transcriptRefs, calls, sessions, media, unhandledRejections>>

Next ==
    \/ handleConnect
    \/ \E i \in Slots : ContextReady(i)
    \/ \E i \in Slots : MicGranted(i)
    \/ \E i \in Slots : MicDenied(i)
    \/ \E i \in Slots : TransportOpen(i)
    \/ \E i \in Slots : ConnectRejected(i)
    \/ \E i \in Slots : onError(i)
    \/ \E i \in Slots : onClose(i)
    \/ \E i \in Slots, m \in DeliveredMessages : onMessage(i, m)
    \/ Decoded
    \/ \E i \in Slots : onaudioprocess(i)
    \/ Stop
    \/ Unmount

Spec == Init /\ [][Next]_vars

\* The same component with room for one more handleConnect invocation.
SpecOverlap == InitOverlap /\ [][Next]_vars

\* The component mounted with any persona of AGENTS as its prop.
InitAgents ==
    /\ Constructed(Starts)
    /\ agent \in AgentIds
    /\ NoConversion

SpecAgents == InitAgents /\ [][Next]_vars

\* The start of a session for every agent: the context fetch, the connect and
\* the microphone with their outcomes, teardown.
NextConnect ==
    \/ handleConnect
    \/ \E i \in Slots : ContextReady(i)
    \/ \E i \in Slots : MicGranted(i)
    \/ \E i \in Slots : MicDenied(i)
    \/ \E i \in Slots : TransportOpen(i)
    \/ \E i \in Slots : ConnectRejected(i)
    \/ \E i \in Slots : onError(i)
    \/ \E i \in Slots : onClose(i)
    \/ Stop
    \/ Unmount

SpecConnect == InitAgents /\ [][NextConnect]_vars

\* ---- a connected session ----

\* The state Spec reaches when start 1 has fetched its context, opened its
\* transport and been granted the microphone, with MaxEvents messages,
\* windows and ticks still to deliver.  The transport is in state ws and its
\* promise in state promise; state is the session state, and from the one
\* MicGranted found.
Started(ws, promise, state, from) ==
    /\ mounted = TRUE
    /\ sessionState = state
    /\ transcriptionHistory = <<>>
    /\ currentUserTranscription = <<>>
    /\ currentModelTranscription = <<>>
    /\ sessionPromiseRef = 1
    /\ inputAudioContextRef = 1
    /\ outputAudioContextRef = 1
    /\ microphoneStreamRef = 1
    /\ scriptProcessorRef = 1
    /\ sourceNodeRef = 1
    /\ outputAudioSources = {}
    /\ nextAudioStartTime = 0
    /\ userTranscriptRef = <<>>
    /\ modelTranscriptRef = <<>>
    /\ calls = [i \in Starts |->
                  IF i = 1 THEN [pc |-> "done", superseded |-> FALSE] ELSE NoCall]
    /\ sessions = [i \in Starts |->
                     IF i = 1
                     THEN [NoSession EXCEPT
                             !.ws = ws, !.promise = promise,
                             !.systemInstruction = finalSystemInstruction(DefaultAgent)]
                     ELSE NoSession]
    /\ media = [i \in Starts |->
                  IF i = 1
                  THEN [mic |-> "live", inputCtx |-> "running",
                        outputCtx |-> "running", scriptProcessor |-> "connected",
                        sourceNode |-> "connected", windows |-> 0]
                  ELSE NoMedia]
    /\ sources = <<>>
    /\ currentTime = 0
    /\ unhandledRejections = 0
    /\ inputs = MaxEvents
    /\ lastOp = [op |-> "micGranted", from |-> from, message |-> NoMessage,
                 effects |-> <<>>]
    /\ decoding = <<>>
    /\ arrived = 0
    /\ agent = DefaultAgent
    /\ NoConversion
    /\ NoTextChat

\* The transport opened before the microphone was granted.
InitConnected == Started("open", "resolved", "connected", "connected")

\* The microphone was granted while the transport is still opening.
InitCapture == Started("connecting", "pending", "connecting", "connecting")

\* Capture from the moment the microphone is granted: windows, the outcome of
\* the connect, teardown.
NextCapture ==
    \/ \E i \in Slots : onaudioprocess(i)
    \/ \E i \in Slots : TransportOpen(i)
    \/ \E i \in Slots : ConnectRejected(i)
    \/ \E i \in Slots : onError(i)
    \/ \E i \in Slots : onClose(i)
    \/ Stop
    \/ Unmount

SpecCapture == InitCapture /\ [][NextCapture]_vars

\* Playback in a connected session: messages with a model turn, the
\* resumption of their decodes, the clock, the end of sources, teardown.
NextPlayback ==
    \/ \E i \in Slots, m \in AudioMessages : onMessage(i, m)
    \/ Decoded
    \/ \E k \in DOMAIN sources : SourceEnded(k)
    \/ Tick
    \/ \E i \in Slots : onError(i)
    \/ \E i \in Slots : onClose(i)
    \/ Stop
    \/ Unmount

SpecPlayback == InitConnected /\ [][NextPlayback]_vars

\* Transcription in a connected session: messages with transcription deltas
\* and turn completions, teardown.
NextTranscript ==
    \/ \E i \in Slots, m \in TextMessages : onMessage(i, m)
    \/ \E i \in Slots : onError(i)
    \/ \E i \in Slots : onClose(i)
    \/ Stop
    \/ Unmount

SpecTranscript == InitConnected /\ [][NextTranscript]_vars

\* ---- the PCM conversions (lines 7-50) ----

\* Lines 34 and 44: the factor between a sample and its 16-bit value.
PCMScale == 32768

\* A sample is a multiple of 1/(PCMScale * SubSteps), written as its
\* numerator, and lies between -MaxAmplitude and MaxAmplitude.
SubSteps == 2
MaxAmplitude == 2

\* The numerator of the sample 1.0.
Unit == PCMScale * SubSteps

Samples == (-MaxAmplitude * Unit)..(MaxAmplitude * Unit)

\* The windows of one sample.
Windows == {<<n>> : n \in Samples}

\* The '=' that pads base64 text; the other characters are written 0..63.
Pad == 64

\* The integer part of n / d, as the store into an Int16Array takes it.
Truncate(n, d) == IF n >= 0 THEN n \div d ELSE -((-n) \div d)

\* The store into an Int16Array element: the integer modulo 2^16, signed.
ToInt16(v) == LET m == v % 65536 IN IF m >= 32768 THEN m - 65536 ELSE m

\* Line 47, new Uint8Array(int16.buffer): two bytes for each element, the
\* low one first.
RECURSIVE Uint8Array(_)
Uint8Array(elements) ==
    IF elements = <<>> THEN <<>>
    ELSE LET u == elements[1] % 65536 IN
         <<u % 256, u \div 256>> \o Uint8Array(Tail(elements))

\* Line 27, new Int16Array(data.buffer): one element for each two bytes.
RECURSIVE Int16Array(_)
Int16Array(bytes) ==
    IF Len(bytes) < 2 THEN <<>>
    ELSE <<ToInt16(bytes[1] + 256 * bytes[2])>>
         \o Int16Array(SubSeq(bytes, 3, Len(bytes)))

\* Lines 7-14: btoa of the bytes, four characters for every three bytes.
RECURSIVE encode(_)
encode(bytes) ==
    IF bytes = <<>> THEN <<>>
    ELSE LET n == IF Len(bytes) >= 3 THEN 3 ELSE Len(bytes)
             b(k) == IF k <= n THEN bytes[k] ELSE 0
             v == b(1) * 65536 + b(2) * 256 + b(3)
             chars == <<v \div 262144, (v \div 4096) % 64, (v \div 64) % 64,
                        v % 64>>
         IN [k \in 1..4 |-> IF k <= n + 1 THEN chars[k] ELSE Pad]
            \o encode(SubSeq(bytes, n + 1, Len(bytes)))

\* Lines 16-24: the bytes of the base64 text.
RECURSIVE decode(_)
decode(base64) ==
    IF Len(base64) < 4 THEN <<>>
    ELSE LET pads == Cardinality({k \in 1..4 : base64[k] = Pad})
             c(k) == IF base64[k] = Pad THEN 0 ELSE base64[k]
             v == c(1) * 262144 + c(2) * 4096 + c(3) * 64 + c(4)
             bytes == <<v \div 65536, (v \div 256) % 256, v % 256>>
         IN SubSeq(bytes, 1, 3 - pads)
            \o decode(SubSeq(base64, 5, Len(base64)))

\* Everything but the conversions.
component == <<mounted, reactState, sessionPromiseRef, audioRefs, playback,
               transcriptRefs, calls, sessions, media, currentTime,
               unhandledRejections, inputs, lastOp, agent, awaits, textChat>>

\* Line 44: the sample n / Unit times 32768, which is n / SubSteps.
Scaled(n) == Truncate(n, SubSteps)

\* Lines 40-50: the window is scaled by 32768 into an Int16Array, whose
\* bytes are encoded.
createBlob ==
    /\ inputData # <<>>
    /\ pcmBlob = <<>>
    /\ int16' = [k \in DOMAIN inputData |-> ToInt16(Scaled(inputData[k]))]
    /\ pcmBlob' = encode(Uint8Array(int16'))
    /\ UNCHANGED <<component, inputData, channelData>>

\* Lines 26-38 applied to decode(data), as line 195 calls it with one
\* channel: every 16-bit value v is divided by 32768, which as a sample is
\* the numerator v * SubSteps.
decodePCMAudioData ==
    /\ pcmBlob # <<>>
    /\ channelData = <<>>
    /\ channelData' =
         LET dataInt16 == Int16Array(decode(pcmBlob)) IN
         [k \in DOMAIN dataInt16 |-> dataInt16[k] * SubSteps]
    /\ UNCHANGED <<component, inputData, int16, pcmBlob>>

\* A window of samples is about to be converted.
InitPCM ==
    /\ Constructed(Starts)
    /\ agent = DefaultAgent
    /\ inputData \in Windows
    /\ int16 = <<>>
    /\ pcmBlob = <<>>
    /\ channelData = <<>>

NextPCM == createBlob \/ decodePCMAudioData

SpecPCM == InitPCM /\ [][NextPCM]_vars

\* ---- the text chat (TextChat.tsx) ----

MaxSends == 2       \* handleSendMessage invocations that pass the guard
MaxChunks == 2      \* chunks of one response stream
MaxChats == 2       \* chats the effect of lines 66-84 creates
MaxPlays == 2       \* handlePlayAudio invocations that request speech

\* LiveChat but for its agent prop and the task that ran last.
liveChat == <<mounted, reactState, sessionPromiseRef, audioRefs, playback,
              transcriptRefs, calls, sessions, media, currentTime,
              unhandledRejections, inputs, pcm, awaits>>

\* What the input box holds when the form is submitted.
Inputs == {"", "hi"}
ChunkTexts == {"c"}

UserMessage(input) == [role |-> "user", content |-> <<input>>]
ModelMessage(text) == [role |-> "model", content |-> text]

\* Line 116.
SendErrorMessage ==
    ModelMessage(<<"Sorry, something went wrong. Please try again.">>)

\* Line 80.
InitErrorMessage ==
    ModelMessage(<<"Error: Could not initialize chat session.">>)

\* Lines 66-84: the effect creates a chat and empties the message list; when
\* the creation throws, the list holds the message of line 80 and the chat
\* is left as it was.
ChatCreated(id) ==
    /\ chat' = IF chatsCreatable THEN id ELSE chat
    /\ messages' = IF chatsCreatable THEN <<>> ELSE <<InitErrorMessage>>

\* TextChat as its first effect leaves it.
MountedTextChat ==
    /\ chatsCreatable \in BOOLEAN
    /\ chat = (IF chatsCreatable THEN 1 ELSE 0)
    /\ messages = (IF chatsCreatable THEN <<>> ELSE <<InitErrorMessage>>)
    /\ isLoading = FALSE
    /\ streams = <<>>
    /\ audioState = "idle"
    /\ playingMessageId = 0
    /\ audioError = ""
    /\ audioContextRef = 0
    /\ audioSourceRef = 0
    /\ plays = <<>>

\* Lines 66-84 run again: the agent prop has changed to a, or the selected
\* language has changed (a is the agent held).
initChat(a) ==
    /\ chat < MaxChats
    /\ agent' = a
    /\ ChatCreated(chat + 1)
    /\ lastOp' = Did("initChat")
    /\ UNCHANGED <<liveChat, isLoading, streams, chatsCreatable, player>>

\* Lines 109-111 and 118-120 when mutated to append to an empty list.
ReplaceLastOrAppend(prev, message) ==
    IF prev = <<>> THEN <<message>>
    ELSE [prev EXCEPT ![Len(prev)] = message]

\* Lines 109-111 and 118-120: the copy of the list with its last element
\* replaced.  On the empty list the assignment to index -1 adds no element.
ReplaceLast(prev, message) ==
    IF prev = <<>> THEN prev
    ELSE [prev EXCEPT ![Len(prev)] = message]

\* Lines 90-104, up to the await.
handleSendMessage(input) ==
    /\ lastOp' = Did("handleSendMessage")
    /\ UNCHANGED <<liveChat, agent, chat, chatsCreatable, player>>
    /\ IF input = "" \/ chat = 0 \/ isLoading
       THEN UNCHANGED <<messages, isLoading, streams>>
       ELSE /\ Len(streams) < MaxSends
            /\ messages' = messages \o <<UserMessage(input), ModelMessage(<<>>)>>
            /\ isLoading' = TRUE
            /\ streams' = Append(streams, [chat |-> chat, pc |-> "streaming",
                                           accumulatedText |-> <<>>])

\* Lines 106-113: the stream of invocation s yields a chunk.
StreamChunk(s, text) ==
    /\ streams[s].pc = "streaming"
    /\ Len(streams[s].accumulatedText) < MaxChunks
    /\ streams' = [streams EXCEPT ![s].accumulatedText = Append(@, text)]
    /\ messages' = ReplaceLast(messages,
                               ModelMessage(streams'[s].accumulatedText))
    /\ lastOp' = [Did("chunk") EXCEPT !.effects = <<s>>]
    /\ UNCHANGED <<liveChat, agent, chat, isLoading, chatsCreatable, player>>

\* Lines 106, 122-124: the stream of invocation s ends.
StreamEnd(s) ==
    /\ streams[s].pc = "streaming"
    /\ streams' = [streams EXCEPT ![s].pc = "done"]
    /\ isLoading' = FALSE
    /\ lastOp' = [Did("streamEnd") EXCEPT !.effects = <<s>>]
    /\ UNCHANGED <<liveChat, agent, chat, messages, chatsCreatable, player>>

\* Lines 104-106, 114-124: sendMessageStream rejects or the stream throws.
StreamError(s) ==
    /\ streams[s].pc = "streaming"
    /\ streams' = [streams EXCEPT ![s].pc = "failed"]
    /\ messages' = ReplaceLast(messages, SendErrorMessage)
    /\ isLoading' = FALSE
    /\ lastOp' = [Did("streamError") EXCEPT !.effects = <<s>>]
    /\ UNCHANGED <<liveChat, agent, chat, chatsCreatable, player>>

InitConversation ==
    /\ ConstructedLive(Starts)
    /\ agent = DefaultAgent
    /\ NoConversion
    /\ MountedTextChat

NextConversation ==
    \/ \E a \in AgentIds : initChat(a)
    \/ \E input \in Inputs : handleSendMessage(input)
    \/ \E s \in DOMAIN streams, text \in ChunkTexts : StreamChunk(s, text)
    \/ \E s \in DOMAIN streams : StreamEnd(s)
    \/ \E s \in DOMAIN streams : StreamError(s)

SpecConversation == InitConversation /\ [][NextConversation]_vars

\* ---- the text-to-speech player of the text chat ----

NoPlay == [messageId |-> 0, pc |-> "none", ctx |-> "none", source |-> "none",
           onended |-> FALSE]

\* Line 256: the messages that show an audio button.
Speakable == {k \in DOMAIN messages :
                 messages[k].role = "model" /\ messages[k].content # <<>>}

\* Lines 128-135: the source held is stopped, which queues its ended event,
\* and the context held is closed; audioContextRef keeps the closed context.
StoppedAudio(ps) ==
    [i \in DOMAIN ps |->
       LET held == audioSourceRef = i /\ ps[i].source = "playing" IN
       [ps[i] EXCEPT
          !.source = IF held THEN "stopped" ELSE @,
          !.onended = IF held THEN TRUE ELSE @,
          !.ctx = IF audioContextRef = i /\ @ = "running" THEN "closed" ELSE @]]

\* Lines 127-138.
stopAudio(ps) ==
    /\ plays' = StoppedAudio(ps)
    /\ audioSourceRef' = 0
    /\ audioState' = "idle"
    /\ playingMessageId' = 0
    /\ UNCHANGED <<audioError, audioContextRef>>

\* Lines 140-155, up to the await of line 160 or 183.  The button of the
\* message that is loading is disabled (line 219).
handlePlayAudio(messageId) ==
    /\ messageId \in Speakable
    /\ ~(playingMessageId = messageId /\ audioState = "loading")
    /\ lastOp' = [Did("handlePlayAudio") EXCEPT !.effects = <<messageId>>]
    /\ UNCHANGED <<liveChat, agent, conversation>>
    /\ IF audioState = "playing" /\ playingMessageId = messageId
       THEN stopAudio(plays)
       ELSE /\ Len(plays) < MaxPlays
            /\ plays' = Append(IF audioState = "playing"
                               THEN StoppedAudio(plays) ELSE plays,
                               [NoPlay EXCEPT !.messageId = messageId,
                                              !.pc = "loading"])
            /\ audioSourceRef' = IF audioState = "playing" THEN 0
                                 ELSE audioSourceRef
            /\ playingMessageId' = messageId
            /\ audioState' = "loading"
            /\ audioError' = ""
            /\ UNCHANGED audioContextRef

\* What generateContent answers: PCM audio, audio of an odd number of bytes,
\* or no audio (or a rejection).
Speech == {"audio", "undecodable", "none"}

\* Lines 168-180 and 191-203, 206-211: the answer to request i has arrived.
SpeechLoaded(i, answer) ==
    /\ plays[i].pc = "loading"
    /\ lastOp' = [Did("speechLoaded") EXCEPT !.effects = <<i>>]
    /\ UNCHANGED <<liveChat, agent, conversation>>
    /\ IF answer = "audio"
       THEN /\ plays' = [plays EXCEPT ![i].pc = "done", ![i].ctx = "running",
                                      ![i].source = "playing"]
            /\ audioContextRef' = i
            /\ audioSourceRef' = i
            /\ audioState' = "playing"
            /\ UNCHANGED <<playingMessageId, audioError>>
       ELSE /\ plays' = [plays EXCEPT ![i].pc = "failed",
                                      ![i].ctx = IF answer = "undecodable"
                                                 THEN "running" ELSE @]
            /\ audioContextRef' = IF answer = "undecodable" THEN i
                                  ELSE audioContextRef
            /\ audioState' = "error"
            /\ audioError' = "Failed to play audio."
            /\ playingMessageId' = 0
            /\ UNCHANGED audioSourceRef

\* Lines 177, 200: the ended event of the source of request i, which has
\* played to its end or was stopped, runs stopAudio.
onended(i) ==
    /\ \/ plays[i].source = "playing" /\ plays[i].ctx = "running"
       \/ plays[i].onended
    /\ lastOp' = [Did("onended") EXCEPT !.effects = <<i>>]
    /\ UNCHANGED <<liveChat, agent, conversation>>
    /\ stopAudio([plays EXCEPT ![i].onended = FALSE,
                               ![i].source = IF @ = "playing" THEN "ended"
                                             ELSE @])

\* A conversation of two answered messages.
InitSpeech ==
    /\ ConstructedLive(Starts)
    /\ agent = DefaultAgent
    /\ NoConversion
    /\ chatsCreatable = TRUE
    /\ chat = 1
    /\ messages = <<UserMessage("hi"), ModelMessage(<<"c">>),
                    UserMessage("hi"), ModelMessage(<<"c">>)>>
    /\ isLoading = FALSE
    /\ streams = <<[chat |-> 1, pc |-> "done", accumulatedText |-> <<"c">>],
                   [chat |-> 1, pc |-> "done", accumulatedText |-> <<"c">>]>>
    /\ audioState = "idle"
    /\ playingMessageId = 0
    /\ audioError = ""
    /\ audioContextRef = 0
    /\ audioSourceRef = 0
    /\ plays = <<>>

NextSpeech ==
    \/ \E k \in DOMAIN messages : handlePlayAudio(k)
    \/ \E i \in DOMAIN plays, answer \in Speech : SpeechLoaded(i, answer)
    \/ \E i \in DOMAIN plays : onended(i)

SpecSpeech == InitSpeech /\ [][NextSpeech]_vars

\* ---- properties ----

TeardownOps == {"stop", "unmount", "onError", "onClose", "micDenied"}

\* What cleanup leaves in the component: state 'idle', every ref null, no
\* source in the set, both transcript buffers and both live values empty.
TornDown ==
    /\ sessionState = "idle"
    /\ sessionPromiseRef = 0
    /\ inputAudioContextRef = 0
    /\ outputAudioContextRef = 0
    /\ microphoneStreamRef = 0
    /\ scriptProcessorRef = 0
    /\ sourceNodeRef = 0
    /\ outputAudioSources = {}
    /\ nextAudioStartTime = 0
    /\ userTranscriptRef = <<>>
    /\ modelTranscriptRef = <<>>
    /\ currentUserTranscription = <<>>
    /\ currentModelTranscription = <<>>

\* In the step taken, the capture held by the refs is stopped, close is
\* requested on the held transport and no source is left playing.
HeldReleased ==
    /\ microphoneStreamRef # 0 => media'[microphoneStreamRef].mic = "stopped"
    /\ scriptProcessorRef # 0 =>
           media'[scriptProcessorRef].scriptProcessor = "disconnected"
    /\ sourceNodeRef # 0 => media'[sourceNodeRef].sourceNode = "disconnected"
    /\ sessionPromiseRef # 0 => sessions'[sessionPromiseRef].closeRequests > 0
    /\ \A k \in DOMAIN sources' : sources'[k].state # "playing"

LiveMics == {i \in Slots : media[i].mic = "live"}

\* Transports that are opening or open and on which no close was requested.
LiveTransports ==
    {i \in Slots : sessions[i].ws \in {"connecting", "open"}
                    /\ sessions[i].closeRequests = 0}

\* C1: when onError runs while the state is 'connected', the state settles in
\* 'error', capture is stopped, the held transport is closed and every
\* scheduled source is stopped.
C1_ErrorSettlesInError ==
    [][lastOp'.op = "onError" /\ lastOp'.from = "connected"
         => sessionState' = "error" /\ HeldReleased]_vars

\* C2: handleConnect called while the state is 'connected',
\* 'fetching_context' or 'connecting' changes neither the state, the held
\* transport, the microphone stream, the transcript buffers nor the history.
C2_StartRejectedWhileActive ==
    [][lastOp'.op = "handleConnect"
         /\ sessionState \in {"connected", "fetching_context", "connecting"}
         => UNCHANGED <<sessionState, sessionPromiseRef, microphoneStreamRef,
                        userTranscriptRef, modelTranscriptRef,
                        currentUserTranscription, currentModelTranscription,
                        transcriptionHistory, sessions, media, calls>>]_vars

C2_Witness ==
    /\ lastOp.op = "handleConnect"
    /\ lastOp.from = "connected"
    /\ sessionState = "connected"
    /\ sessionPromiseRef # 0
    /\ microphoneStreamRef # 0
    /\ transcriptionHistory # <<>>

\* C3: cleanup is idempotent: every run of it leaves the component torn down
\* (state 'idle', every ref null); a run of it on a torn-down component leaves
\* it torn down and changes nothing else (no transport beyond the socket
\* state its own callback reports, no media object, no source, no history
\* entry, no rejection); and close is requested at most once on each
\* transport.
C3_StopIdempotent ==
    /\ [][lastOp'.op \in TeardownOps => TornDown']_vars
    /\ [][lastOp'.op \in TeardownOps /\ TornDown
            => /\ \A i \in Slots :
                    [sessions'[i] EXCEPT !.ws = sessions[i].ws] = sessions[i]
               /\ media' = media
               /\ sources' = sources
               /\ transcriptionHistory' = transcriptionHistory
               /\ unhandledRejections' = unhandledRejections]_vars
    /\ [](\A i \in Slots : sessions[i].closeRequests <= 1)

C3_Witness ==
    /\ lastOp.op \in TeardownOps
    /\ lastOp.from = "idle"
    /\ TornDown
    /\ \E i \in Slots : sessions[i].closeRequests = 1 /\ media[i].mic = "stopped"

\* C4: once cleanup has run while a handleConnect invocation awaits a step,
\* the resolution of that step changes neither the state nor any ref, and
\* acquires no transport, stream, context or node.
C4_StaleStartIsNoOp ==
    [][\A i \in Slots :
          calls[i].superseded /\ calls'[i].pc # calls[i].pc
          => UNCHANGED <<sessionState, sessionPromiseRef, microphoneStreamRef,
                         inputAudioContextRef, outputAudioContextRef,
                         scriptProcessorRef, sourceNodeRef, sessions, media>>]_vars

\* C5: at most one transport and at most one microphone stream are live.
C5_AtMostOneSession ==
    /\ Cardinality(LiveMics) <= 1
    /\ Cardinality(LiveTransports) <= 1

\* C6: every run of cleanup leaves the component torn down with no microphone
\* stream live, no transport left without a close request and no source
\* playing.
C6_StopReleasesEverything ==
    [][lastOp'.op \in TeardownOps
         => /\ TornDown'
            /\ HeldReleased
            /\ LiveMics' = {}
            /\ LiveTransports' = {}]_vars

\* C7: when onClose runs while the state is 'connected', the component is
\* left as cleanup leaves it: torn down, state 'idle', the held capture
\* stopped, close requested on the held transport, no source playing.
C7_CloseTearsDown ==
    [][lastOp'.op = "onClose" /\ lastOp'.from = "connected"
         => TornDown' /\ HeldReleased]_vars

C7_Witness ==
    /\ lastOp.op = "onClose"
    /\ lastOp.from = "connected"
    /\ sessionState = "idle"
    /\ \E i \in Slots : sessions[i].ws = "closed" /\ media[i].mic = "stopped"

\* C8: a rejected connect promise leaves no rejection unhandled, and once
\* its handleConnect has finished the state is not left in 'connecting'.
C8_ConnectFailureSurfaces ==
    \A i \in Slots :
        sessions[i].promise = "rejected"
        => /\ unhandledRejections = 0
           /\ calls[i].pc = "done" /\ sessionPromiseRef = i
                => sessionState # "connecting"

\* C9: when getUserMedia rejects during a start, the state ends in 'error',
\* close is requested on the transport being opened and no audio resource is
\* left allocated.
C9_MicDeniedEndsInError ==
    [][lastOp'.op = "micDenied" /\ lastOp'.from = "connecting"
         => /\ sessionState' = "error"
            /\ HeldReleased
            /\ microphoneStreamRef' = 0
            /\ inputAudioContextRef' = 0
            /\ outputAudioContextRef' = 0]_vars

\* C10: the state is 'connected' only when the transport opened by the
\* current start is held and has confirmed open.
C10_ConnectedOnlyAfterOpen ==
    sessionState = "connected"
    => /\ sessionPromiseRef # 0
       /\ sessions[sessionPromiseRef].promise = "resolved"

\* C11: within one output context, every source is scheduled to start at or
\* after the end (start plus duration) of every source scheduled before it.
C11_SegmentsNeverOverlap ==
    \A k, l \in DOMAIN sources :
        k < l /\ sources[k].ctx = sources[l].ctx
        => sources[l].start >= sources[k].start + sources[k].duration

C11_Witness ==
    /\ Len(sources) = 2
    /\ sources[1].start > 0
    /\ sources[2].start = sources[1].start + sources[1].duration

\* The entries of the speakers whose buffer is not empty, user first.
NonEmptyEntries(user, model) ==
    Sel(user # <<>>, [speaker |-> "user", text |-> user])
    \o Sel(model # <<>>, [speaker |-> "model", text |-> model])

\* C12: a turn-complete message appends to the history one entry for each
\* speaker whose buffer is not empty, the user's before the model's, and no
\* entry for an empty buffer.
C12_EntryPerNonEmptyBuffer ==
    [][lastOp'.op = "onMessage" /\ lastOp'.message.turnComplete /\ mounted
         => transcriptionHistory' =
                transcriptionHistory
                \o NonEmptyEntries(UserTextAfter(lastOp'.message),
                                   ModelTextAfter(lastOp'.message))]_vars

\* C13: a turn-complete message leaves both buffers and both live values
\* empty and appends, in the one step, the user entry and the model entry
\* holding the text accumulated since the buffers were last reset: what the
\* buffers held plus the delta of the message itself.  Between resets a
\* buffer only grows at its end.
C13_TurnCompleteResetsAndAppends ==
    /\ [][lastOp'.op = "onMessage" /\ lastOp'.message.turnComplete
            => /\ userTranscriptRef' = <<>>
               /\ modelTranscriptRef' = <<>>
               /\ currentUserTranscription' = <<>>
               /\ currentModelTranscription' = <<>>
               /\ mounted =>
                    /\ Len(transcriptionHistory') = Len(transcriptionHistory) + 2
                    /\ SubSeq(transcriptionHistory', 1, Len(transcriptionHistory))
                         = transcriptionHistory
                    /\ transcriptionHistory'[Len(transcriptionHistory) + 1] =
                         [speaker |-> "user",
                          text |-> UserTextAfter(lastOp'.message)]
                    /\ transcriptionHistory'[Len(transcriptionHistory) + 2] =
                         [speaker |-> "model",
                          text |-> ModelTextAfter(lastOp'.message)]]_vars
    /\ [][lastOp'.op = "onMessage" /\ ~lastOp'.message.turnComplete
            => /\ userTranscriptRef' = UserTextAfter(lastOp'.message)
               /\ modelTranscriptRef' = ModelTextAfter(lastOp'.message)
               /\ transcriptionHistory' = transcriptionHistory]_vars

C13_Witness ==
    /\ lastOp.op = "onMessage"
    /\ lastOp.message.turnComplete
    /\ mounted
    /\ Len(transcriptionHistory) = 2
    /\ transcriptionHistory[1] = [speaker |-> "user", text |-> <<"a">>]
    /\ transcriptionHistory[2] = [speaker |-> "model", text |-> <<"a", "a">>]
    /\ userTranscriptRef = <<>>
    /\ modelTranscriptRef = <<>>

IsPrefix(s, t) == Len(s) <= Len(t) /\ SubSeq(t, 1, Len(s)) = s

\* C14: the history is append-only: in every step the history before it is a
\* prefix of the history after it.
C14_HistoryAppendOnly ==
    [][IsPrefix(transcriptionHistory, transcriptionHistory')]_vars

\* C15: the system instruction passed to ai.live.connect holds no
\* placeholder: every {language} of the persona's template has been replaced.
C15_InstructionHasNoPlaceholder ==
    \A i \in Slots :
        sessions[i].ws # "none"
        => \A k \in DOMAIN sessions[i].systemInstruction :
               sessions[i].systemInstruction[k] # Placeholder

Abs(x) == IF x >= 0 THEN x ELSE -x

\* C16: a sample of [-1, 1] that went through createBlob and
\* decodePCMAudioData comes back within 1/32768 of itself.
C16_RoundTripWithinOneStep ==
    channelData # <<>>
    => \A k \in DOMAIN inputData :
           Abs(inputData[k]) <= Unit
           => Abs(channelData[k] - inputData[k]) <= SubSteps

\* C17: createBlob clamps: a sample of 1 or more is stored as 32767 and a
\* sample whose scaled value is below -32768 as -32768.
C17_CaptureClamps ==
    int16 # <<>>
    => \A k \in DOMAIN inputData :
           /\ inputData[k] >= Unit => int16[k] = 32767
           /\ Scaled(inputData[k]) < -32768
                => int16[k] = -32768

\* The tasks that call setSessionState('error') (lines 211 and 249).
ErrorOps == {"onError", "micDenied"}

\* C18: the state a task sets to 'error' is 'error' when the task ends, and
\* the only step that changes the state away from 'error' is a handleConnect
\* that takes it to 'fetching_context'.
C18_ErrorLeftOnlyByRetry ==
    /\ [][lastOp'.op \in ErrorOps /\ mounted => sessionState' = "error"]_vars
    /\ [][sessionState = "error" /\ sessionState' # "error"
            => lastOp'.op = "handleConnect"
               /\ sessionState' = "fetching_context"]_vars

\* Every a of seq comes before every b of seq.
Before(seq, a, b) ==
    \A i, j \in DOMAIN seq : seq[i] = a /\ seq[j] = b => i < j

Has(seq, a) == \E i \in DOMAIN seq : seq[i] = a

CaptureStops == {"scriptProcessor.disconnect", "sourceNode.disconnect", "track.stop"}
OutputReleases == {"outputAudioContext.close", "source.stop"}

\* C19: in the calls of a teardown, the capture is stopped before
\* session.close() runs and session.close() runs before the output context
\* is closed and the sources are stopped; a teardown that holds a transport
\* and releases the output has closed the transport by then.
C19_TeardownOrder ==
    LET e == lastOp.effects IN
    /\ \A c \in CaptureStops : Before(e, c, "session.close")
    /\ \A o \in OutputReleases : Before(e, "session.close", o)
    /\ \A o \in OutputReleases :
           Has(e, "then(session.close)") /\ Has(e, o) => Has(e, "session.close")

\* C20: the step that opens the transport of a start finds the microphone
\* request of that start granted.
C20_MicrophoneBeforeTransport ==
    [][\A i \in Slots :
          sessions[i].ws = "none" /\ sessions'[i].ws # "none"
          => calls[i].pc = "done" /\ media[i].mic = "live"]_vars

\* C21: a source is started at the greater of the clock and
\* nextAudioStartTime, which then advances by its duration; so it starts no
\* earlier than the clock, and exactly at the end of the source before it
\* when that one has not ended yet.
C21_StartIsMaxOfClockAndEnd ==
    [][lastOp'.op = "decoded" /\ lastOp'.message.part = "audio"
         => LET n == Len(sources')
                s == sources'[n]
            IN /\ n = Len(sources) + 1
               /\ s.start = Max(currentTime, nextAudioStartTime)
               /\ s.start >= currentTime
               /\ s.duration = lastOp'.message.audio
               /\ nextAudioStartTime' = s.start + s.duration
               /\ n > 1 /\ sources[n - 1].ctx = s.ctx
                    /\ sources[n - 1].start + sources[n - 1].duration >= currentTime
                    => s.start = sources[n - 1].start + sources[n - 1].duration]_vars

C21_Witness ==
    /\ lastOp.op = "decoded"
    /\ currentTime = 1
    /\ Len(sources) = 2
    /\ sources[1].start = 1
    /\ sources[1].duration = 2
    /\ sources[2].start = 3

\* C22 as claimed: cleanup stops every source that is scheduled or playing,
\* empties the set and sets nextAudioStartTime to the clock.
C22_StopAllResetsToClock ==
    [][lastOp'.op \in TeardownOps
         => /\ \A k \in DOMAIN sources' : sources'[k].state # "playing"
            /\ outputAudioSources' = {}
            /\ nextAudioStartTime' = currentTime']_vars

\* C22 as amended: cleanup stops every source that is scheduled or playing,
\* empties the set and sets nextAudioStartTime to 0.
C22_StopAllResetsToZero ==
    [][lastOp'.op \in TeardownOps
         => /\ \A k \in DOMAIN sources :
                  sources[k].state = "playing" => sources'[k].state = "stopped"
            /\ \A k \in DOMAIN sources' : sources'[k].state # "playing"
            /\ outputAudioSources' = {}
            /\ nextAudioStartTime' = 0]_vars

C22_Witness ==
    /\ lastOp.op \in TeardownOps
    /\ \E k \in DOMAIN sources : sources[k].state = "stopped"
    /\ currentTime > 0
    /\ nextAudioStartTime = 0
    /\ outputAudioSources = {}

\* C23: sources are created in the order their messages arrived and their
\* starts do not decrease, whatever the number of onMessage invocations
\* suspended at the same time; the invocations still suspended arrived after
\* every source created, and resume in their order of arrival.
C23_ScheduledInArrivalOrder ==
    /\ \A k, l \in DOMAIN sources :
           k < l => /\ sources[k].arrival < sources[l].arrival
                    /\ sources[k].ctx = sources[l].ctx
                         => sources[k].start <= sources[l].start
    /\ \A k \in DOMAIN sources, e \in DOMAIN decoding :
           sources[k].arrival < decoding[e].arrival
    /\ \A e, f \in DOMAIN decoding :
           e < f => decoding[e].arrival < decoding[f].arrival

C23_Witness ==
    /\ lastOp.op = "decoded"
    /\ Len(sources) = 1
    /\ sources[1].arrival = 1
    /\ Len(decoding) = 1
    /\ decoding[1].arrival = 2
    /\ decoding[1].message.part = "audio"

\* C24: a message that carries the delta of one speaker and no turn
\* completion appends it to the buffer of that speaker, leaves the buffer and
\* the live value of the other speaker and the history unchanged, and sets
\* the live value of the speaker to the buffer.
C24_DeltaGoesToItsSpeaker ==
    [][lastOp'.op = "onMessage" /\ ~lastOp'.message.turnComplete
         => LET m == lastOp'.message IN
            /\ m.out # NoText /\ m.in = NoText
                 => /\ modelTranscriptRef' = Append(modelTranscriptRef, m.out)
                    /\ userTranscriptRef' = userTranscriptRef
                    /\ currentUserTranscription' = currentUserTranscription
                    /\ transcriptionHistory' = transcriptionHistory
                    /\ mounted => currentModelTranscription' = modelTranscriptRef'
            /\ m.in # NoText /\ m.out = NoText
                 => /\ userTranscriptRef' = Append(userTranscriptRef, m.in)
                    /\ modelTranscriptRef' = modelTranscriptRef
                    /\ currentModelTranscription' = currentModelTranscription
                    /\ transcriptionHistory' = transcriptionHistory
                    /\ mounted => currentUserTranscription' = userTranscriptRef']_vars

C24_Witness ==
    /\ lastOp.op = "onMessage"
    /\ lastOp.message.in = "a"
    /\ lastOp.message.out = NoText
    /\ ~lastOp.message.turnComplete
    /\ mounted
    /\ userTranscriptRef = <<"a", "a">>
    /\ modelTranscriptRef = <<"a">>
    /\ currentUserTranscription = userTranscriptRef

\* C25: the transport of a start is opened by the step that resumes after the
\* context fetch and by no other; its instruction is the instruction of the
\* agent followed by the context block when the context is not empty, and
\* the instruction of the agent alone when it is empty.
C25_ContextBeforeTransport ==
    [][\A i \in Slots :
         /\ calls[i].pc = "fetch" => sessions[i].ws = "none"
         /\ sessions[i].ws = "none" /\ sessions'[i].ws # "none"
              => /\ calls[i].pc = "fetch"
                 /\ lastOp'.op = "contextReady"
                 /\ LET r2Context == fetchContextFromR2(agent)
                        sent == sessions'[i].systemInstruction
                        own == Len(AGENTS[agent])
                    IN IF r2Context = <<>>
                       THEN sent = AGENTS[agent]
                       ELSE /\ Len(sent) = own + 1 + Len(r2Context)
                            /\ SubSeq(sent, 1, own) = AGENTS[agent]
                            /\ SubSeq(sent, own + 2, Len(sent)) = r2Context
         /\ sessions[i].ws # "none"
              => sessions'[i].systemInstruction = sessions[i].systemInstruction]_vars

C25_Witness ==
    /\ lastOp.op = "contextReady"
    /\ agent = "blog_writer"
    /\ sessions[1].ws = "connecting"
    /\ Len(sessions[1].systemInstruction) = Len(AGENTS[agent]) + 2
    /\ sessions[1].systemInstruction[Len(AGENTS[agent]) + 2] = "r2.blog_writer"

\* The chunks handed to the promise of transport t, those sent first.
Handed(t) == t.sent \o t.pendingSends

\* C26: a window delivered while a transport is held, its promise pending
\* or resolved, hands exactly its own chunk to that transport, behind every
\* chunk handed before; no other step adds a chunk or changes the order of
\* the chunks, and the chunks sent are sent in the order of their windows.
C26_ChunksInProductionOrder ==
    [][\A i \in Slots :
         /\ IsPrefix(sessions[i].sent, sessions'[i].sent)
         /\ \A k, l \in DOMAIN sessions'[i].sent :
               k < l => sessions'[i].sent[k].window < sessions'[i].sent[l].window
         /\ IF /\ lastOp'.op = "onaudioprocess"
               /\ sessionPromiseRef = i
               /\ sessions[i].promise \in {"pending", "resolved"}
            THEN \E p \in Slots :
                   /\ media'[p].windows = media[p].windows + 1
                   /\ Handed(sessions'[i]) =
                        Append(Handed(sessions[i]),
                               [processor |-> p, window |-> media'[p].windows])
            ELSE \/ Handed(sessions'[i]) = Handed(sessions[i])
                 \/ /\ lastOp'.op = "connectRejected"
                    /\ Handed(sessions'[i]) = <<>>]_vars

C26_Witness ==
    /\ lastOp.op = "onOpen"
    /\ Len(sessions[1].sent) = 2
    /\ sessions[1].sent[1].window = 1
    /\ sessions[1].sent[2].window = 2
    /\ sessions[1].pendingSends = <<>>

\* Teardown has closed the transport of start i.
ClosedByTeardown(i) ==
    /\ sessions[i].closeRequests > 0
    /\ sessions[i].promise = "resolved"

\* C27: once teardown has closed a transport, no chunk is sent on it.
C27_NoSendAfterTeardownClose ==
    [][\A i \in Slots :
         ClosedByTeardown(i) => sessions'[i].sent = sessions[i].sent]_vars

C27_Witness ==
    /\ lastOp.op = "onaudioprocess"
    /\ ClosedByTeardown(1)
    /\ sessions[1].ws \in {"closing", "closed"}
    /\ sessionPromiseRef = 0
    /\ media[1].windows = 2
    /\ Len(sessions[1].sent) = 1

\* C28: a message suspends at most one decode, and a message whose first
\* part carries no inline audio (no model turn, no part, or a first part of
\* text) suspends none, raises no error and leaves playback as it was.
C28_NoAudioPartIsSilent ==
    [][lastOp'.op = "onMessage"
         => /\ Len(decoding') <= Len(decoding) + 1
            /\ lastOp'.message.part \in {"none", "empty", "text"}
                 => /\ decoding' = decoding
                    /\ UNCHANGED playback
                    /\ unhandledRejections' = unhandledRejections]_vars

\* C29: a decode that throws leaves the session state, the buffers, the live
\* values, the history, the sources and their set as they were; a source
\* created after a failure still starts at or after the end of every source
\* of its context that is playing.
C29_DecodeFailureIsolated ==
    [][lastOp'.op = "decoded"
         => /\ lastOp'.message.part = "undecodable"
                 => /\ UNCHANGED <<reactState, transcriptRefs>>
                    /\ UNCHANGED <<sources, outputAudioSources>>
                    /\ sessionState = "connected" => sessionState' = "connected"
            /\ lastOp'.message.part = "audio" /\ unhandledRejections > 0
                 => /\ Len(sources') = Len(sources) + 1
                    /\ \A k \in DOMAIN sources :
                          /\ sources[k].ctx = sources'[Len(sources')].ctx
                          /\ sources[k].state = "playing"
                          => sources[k].start + sources[k].duration
                               <= sources'[Len(sources')].start]_vars

C29_Witness ==
    /\ lastOp.op = "decoded"
    /\ lastOp.message.part = "undecodable"
    /\ sessionState = "connected"
    /\ unhandledRejections = 1
    /\ Len(sources) = 1
    /\ outputAudioSources = {1}
    /\ Len(decoding) = 1
    /\ decoding[1].message.part = "audio"

\* C30: while the state is connected, sessionPromiseRef holds a transport.
C30_ConnectedHoldsHandle ==
    sessionState = "connected" => sessionPromiseRef # 0

\* In the step taken, what the component holds for the session of
\* sessionPromiseRef is left as it was.
HeldSessionUntouched ==
    /\ UNCHANGED <<reactState, transcriptRefs, audioRefs, sessionPromiseRef>>
    /\ UNCHANGED <<playback, decoding>>
    /\ sessions'[sessionPromiseRef] = sessions[sessionPromiseRef]
    /\ media'[sessionPromiseRef] = media[sessionPromiseRef]

\* Every transport that can still deliver a message is one that cleanup has
\* let go.
OnlyStoppedDeliver ==
    \A j \in Slots :
       sessions[j].ws \in {"open", "closing"}
       => j # sessionPromiseRef /\ sessions[j].closeRequests > 0

\* C31: while a later start holds a transport, onopen, onerror, onclose and
\* onmessage of a transport that cleanup has let go change neither the
\* state, the buffers, the history, the refs, the sources nor the transport
\* and the media of the later start.
C31_StaleCallbacksAreInert ==
    [][sessionPromiseRef # 0
         => /\ \A i \in Slots :
                  /\ i # sessionPromiseRef
                  /\ sessions[i].closeRequests > 0
                  /\ sessions'[i] # sessions[i]
                  /\ lastOp'.op \in {"onOpen", "onError", "onClose"}
                  => HeldSessionUntouched
            /\ lastOp'.op = "onMessage" /\ OnlyStoppedDeliver
                 => HeldSessionUntouched]_vars

\* C32: while the state is idle, both transcript buffers and the set of
\* sources are empty.
C32_IdleHoldsNothing ==
    sessionState = "idle"
    => /\ userTranscriptRef = <<>>
       /\ modelTranscriptRef = <<>>
       /\ outputAudioSources = {}

\* C33: cleanup leaves the history as it was; the history loses an entry only
\* in a handleConnect step that finds the state idle or error, and a
\* handleConnect step that finds another state leaves it as it was.
C33_HistoryEmptiedOnlyByStart ==
    [][/\ lastOp'.op \in TeardownOps
            => transcriptionHistory' = transcriptionHistory
       /\ ~IsPrefix(transcriptionHistory, transcriptionHistory')
            => /\ lastOp'.op = "handleConnect"
               /\ sessionState \in {"idle", "error"}
               /\ transcriptionHistory' = <<>>
       /\ lastOp'.op = "handleConnect" /\ sessionState \notin {"idle", "error"}
            => transcriptionHistory' = transcriptionHistory]_vars

C33_Witness ==
    /\ lastOp.op = "stop"
    /\ sessionState = "idle"
    /\ Len(transcriptionHistory) = 2
    /\ transcriptionHistory[1].text # <<>>

\* The entries the step taken has appended to the history.
Appended ==
    SubSeq(transcriptionHistory', Len(transcriptionHistory) + 1,
           Len(transcriptionHistory'))

\* C34: a message that carries a delta of both speakers extends both
\* buffers, and the deltas of a message that completes the turn are part of
\* the entries that the message appends.
C34_EveryDeltaAccumulated ==
    [][lastOp'.op = "onMessage" /\ mounted
         => LET m == lastOp'.message IN
            /\ ~m.turnComplete /\ m.in # NoText /\ m.out # NoText
                 => /\ userTranscriptRef' = Append(userTranscriptRef, m.in)
                    /\ modelTranscriptRef' = Append(modelTranscriptRef, m.out)
            /\ m.turnComplete /\ m.in # NoText
                 => \E k \in DOMAIN Appended :
                       Appended[k] = [speaker |-> "user",
                                      text |-> Append(userTranscriptRef, m.in)]
            /\ m.turnComplete /\ m.out # NoText
                 => \E k \in DOMAIN Appended :
                       Appended[k] = [speaker |-> "model",
                                      text |-> Append(modelTranscriptRef, m.out)]]_vars

\* The source of request i is heard.
Sounding(i) == plays[i].source = "playing" /\ plays[i].ctx = "running"

\* C35: at most one source of the player is heard at a time; audioState is
\* 'playing' only while the source of audioSourceRef is heard; and the ended
\* event of a source silences no source created after it.
C35_OneSourceAtATime ==
    /\ [](Cardinality({i \in DOMAIN plays : Sounding(i)}) <= 1)
    /\ [](audioState = "playing"
            => audioSourceRef # 0 /\ Sounding(audioSourceRef))
    /\ [][lastOp'.op = "onended"
            => \A j \in DOMAIN plays :
                  j > lastOp'.effects[1] /\ Sounding(j)
                  => plays'[j].source = "playing" /\ plays'[j].ctx = "running"]_vars

\* C36: a handleSendMessage step either changes nothing of the conversation
\* or, with no reply loading, appends one user message followed by one empty
\* model message and sets isLoading; while a reply is loading it changes
\* nothing; a chunk of a stream of the chat held replaces the content of the
\* last message, which is the model message of that reply, and nothing
\* else; a chunk of a stream of an earlier chat leaves the messages as they
\* are.
C36_StreamWritesOnlyItsReply ==
    [][/\ lastOp'.op = "handleSendMessage"
            => \/ UNCHANGED <<messages, isLoading, streams>>
               \/ /\ ~isLoading
                  /\ chat # 0
                  /\ isLoading'
                  /\ Len(streams') = Len(streams) + 1
                  /\ \E input \in Inputs \ {""} :
                        messages' = messages \o <<UserMessage(input),
                                                  ModelMessage(<<>>)>>
       /\ lastOp'.op = "handleSendMessage" /\ isLoading
            => UNCHANGED <<messages, isLoading, streams>>
       /\ lastOp'.op = "chunk"
            => LET s == lastOp'.effects[1]
                   n == Len(messages)
               IN IF streams[s].chat = chat
                  THEN /\ n >= 2
                       /\ messages[n - 1].role = "user"
                       /\ messages[n] = ModelMessage(streams[s].accumulatedText)
                       /\ Len(messages') = n
                       /\ SubSeq(messages', 1, n - 1) = SubSeq(messages, 1, n - 1)
                       /\ messages'[n] = ModelMessage(streams'[s].accumulatedText)
                  ELSE messages' = messages]_vars

C36_Witness ==
    /\ lastOp.op = "chunk"
    /\ streams[lastOp.effects[1]].chat # chat
    /\ Len(streams[lastOp.effects[1]].accumulatedText) = 2
    /\ isLoading
    /\ messages = <<>>

====
